---------------------------- MODULE Spec2Model ----------------------------
(***************************************************************************)
(* A model of video_extractor.py: VideoExtractor.find_main_video and the   *)
(* functions it calls, main, and the browser and HTTP server they talk to. *)
(*                                                                         *)
(* Text (URLs, paths, curl's output) is a sequence of one-character        *)
(* strings, so that Python's `in`, find, rfind, split and slicing are      *)
(* computed character by character.                                        *)
(***************************************************************************)
EXTENDS Integers, Sequences, FiniteSets, Bags, TLC

(***************************************************************************)
(* Bounds of the model.                                                    *)
(***************************************************************************)
\* Longest text after "http://v" in the URLs get_download_command is run on.
MaxTail == 4
\* Most responses in one `curl -I -L` redirect chain.
MaxHops == 2
\* How many of play_selectors the trigger tries.
NumSelectors == 2
\* Most elements find_elements returns for one selector.
MaxElements == 1
\* Most entries the browser writes to the performance log in one run.
MaxLog == 1
\* Most times the page navigates in one run.
MaxNav == 1
\* Most exceptions and interrupts raised in one run.
MaxFaults == 1

(***************************************************************************)
(* Python's str operations.                                                *)
(***************************************************************************)
Range(s) == {s[i] : i \in DOMAIN s}

\* sub in s
Contains(sub, s) ==
  \E i \in 1..(Len(s) - Len(sub) + 1) : SubSeq(s, i, i + Len(sub) - 1) = sub

\* s.find(c, start), 1-based; 0 where Python gives -1
Find(c, s, start) ==
  LET hits == {i \in start..Len(s) : s[i] = c}
  IN  IF hits = {} THEN 0 ELSE CHOOSE i \in hits : \A j \in hits : i <= j

\* s.rfind(c), 1-based; 0 where Python gives -1
RFind(c, s) ==
  LET hits == {i \in 1..Len(s) : s[i] = c}
  IN  IF hits = {} THEN 0 ELSE CHOOSE i \in hits : \A j \in hits : i >= j

\* s.startswith(p)
StartsWith(p, s) == Len(s) >= Len(p) /\ SubSeq(s, 1, Len(p)) = p

\* s[i-1:j] of Python, with i and j 1-based and j clipped to the length
Slice(s, i, j) == SubSeq(s, i, IF j > Len(s) THEN Len(s) ELSE j)

\* s[i:] with i 1-based
From(s, i) == SubSeq(s, i, Len(s))

\* s.split(c, 1): the text before the first c and the text after it
SplitOnce(c, s) ==
  LET i == Find(c, s, 1)
  IN  IF i = 0 THEN <<s, <<>>>> ELSE <<SubSeq(s, 1, i - 1), From(s, i + 1)>>

\* str.lower() on the letters the model's texts use
LowerChar(c) ==
  CASE c = "M" -> "m" [] c = "P" -> "p" [] c = "H" -> "h" [] c = "T" -> "t"
    [] c = "V" -> "v" [] c = "O" -> "o" [] c = "K" -> "k" [] c = "F" -> "f"
    [] c = "N" -> "n" [] c = "C" -> "c" [] c = "E" -> "e"
    [] OTHER -> c

Lower(s) == [i \in DOMAIN s |-> LowerChar(s[i])]

Letters ==
  {"a","b","c","d","e","f","g","h","i","j","k","l","m","n","o","p","q","r",
   "s","t","u","v","w","x","y","z",
   "A","B","C","D","E","F","G","H","I","J","K","L","M","N","O","P","Q","R",
   "S","T","U","V","W","X","Y","Z"}

Digits == {"0","1","2","3","4","5","6","7","8","9"}

(***************************************************************************)
(* urllib.parse.urlparse and os.path.basename, as get_download_command     *)
(* uses them to name the output file.                                      *)
(***************************************************************************)
\* urllib.parse.scheme_chars
SchemeChars == Letters \cup Digits \cup {"+", "-", "."}

\* urllib.parse.uses_params, the schemes the URLs of the model can have
UsesParams == {<<>>, <<"h","t","t","p">>, <<"h","t","t","p","s">>, <<"f","t","p">>}

\* urllib.parse._splitnetloc(url, 2): the netloc ends at the first of / ? #
SplitNetloc(url) ==
  LET ends  == {Find(c, url, 3) : c \in {"/", "?", "#"}} \ {0}
      delim == IF ends = {} THEN Len(url) + 1
               ELSE CHOOSE i \in ends : \A j \in ends : i <= j
  IN  <<SubSeq(url, 3, delim - 1), From(url, delim)>>

\* urllib.parse.urlsplit
UrlSplit(url) ==
  LET i         == Find(":", url, 1)
      hasScheme == /\ i > 1
                   /\ url[1] \in Letters
                   /\ \A k \in 1..(i - 1) : url[k] \in SchemeChars
      scheme    == IF hasScheme THEN Lower(SubSeq(url, 1, i - 1)) ELSE <<>>
      u1        == IF hasScheme THEN From(url, i + 1) ELSE url
      hasNetloc == StartsWith(<<"/", "/">>, u1)
      nl        == IF hasNetloc THEN SplitNetloc(u1) ELSE <<<<>>, u1>>
      fr        == SplitOnce("#", nl[2])
      qu        == SplitOnce("?", fr[1])
  IN  [scheme |-> scheme, netloc |-> nl[1], path |-> qu[1],
       query |-> qu[2], fragment |-> fr[2]]

\* urllib.parse._splitparams
SplitParams(url) ==
  LET i == IF "/" \in Range(url) THEN Find(";", url, RFind("/", url))
           ELSE Find(";", url, 1)
  IN  IF i = 0 THEN <<url, <<>>>> ELSE <<SubSeq(url, 1, i - 1), From(url, i + 1)>>

\* urllib.parse.urlparse
UrlParse(url) ==
  LET r  == UrlSplit(url)
      sp == IF r.scheme \in UsesParams /\ ";" \in Range(r.path)
            THEN SplitParams(r.path) ELSE <<r.path, <<>>>>
  IN  [scheme |-> r.scheme, netloc |-> r.netloc, path |-> sp[1],
       params |-> sp[2], query |-> r.query, fragment |-> r.fragment]

\* a variant of basename that cuts at the first / instead of the last
BasenameFirstSlash(p) == From(p, Find("/", p, 1) + 1)

\* os.path.basename
Basename(p) == From(p, RFind("/", p) + 1)

DefaultFilename == <<"v","i","d","e","o",".","m","p","4">>

\* get_download_command, lines 102-105
Filename(video_url) ==
  LET filename == Basename(UrlParse(video_url).path)
  IN  IF filename = <<>> \/ "." \notin Range(filename)
      THEN DefaultFilename ELSE filename

(***************************************************************************)
(* get_download_command: the cookie string, the two curl commands and the  *)
(* reading of curl's output.  A command is the list of its arguments; an   *)
(* argument is a record: a flag, the output file, a header or the URL.     *)
(***************************************************************************)
None == <<>>

Flag(v) == [k |-> "flag", name |-> "", v |-> v]

Header(n, v) == [k |-> "header", name |-> n, v |-> v]

\* the "-H", "Name: value" pair of arguments
HeaderArgs(n, v) == <<Flag("-H"), Header(n, v)>>

UserAgent ==
  "Mozilla/5.0 (X11; Linux x86_64) AppleWebKit/537.36 (KHTML, like Gecko) Chrome/91.0.4472.124 Safari/537.36"

AcceptValue ==
  "video/webm,video/ogg,video/*;q=0.9,application/ogg;q=0.7,audio/*;q=0.6,*/*;q=0.5"

\* "; ".join(f"{cookie['name']}={cookie['value']}" for cookie in cookies),
\* as the list of its pieces; the empty list is the empty string
CookieString(cookies) ==
  LET RECURSIVE join(_)
      join(i) == IF i > Len(cookies) THEN <<>>
                 ELSE (IF i > 1 THEN <<"; ">> ELSE <<>>)
                      \o <<cookies[i].name, "=", cookies[i].value>>
                      \o join(i + 1)
  IN  join(1)

\* lines 129-130 and 195-196: the Cookie header, when the string is not empty
CookieArgs(cookie_string) ==
  IF cookie_string # <<>> THEN HeaderArgs("Cookie", cookie_string) ELSE <<>>

\* lines 116-132
HeadCmd(referer, cookie_string, url) ==
  <<Flag("curl"), Flag("-I"), Flag("-L"), Flag("-s")>>
  \o HeaderArgs("User-Agent", UserAgent)
  \o HeaderArgs("Referer", referer)
  \o HeaderArgs("Accept", AcceptValue)
  \o HeaderArgs("Accept-Language", "en-US,en;q=0.9")
  \o HeaderArgs("Connection", "keep-alive")
  \o CookieArgs(cookie_string)
  \o <<[k |-> "url", name |-> "", v |-> url]>>

\* lines 175-198
DownloadCmd(file, referer, cookie_string, url) ==
  <<Flag("curl"), Flag("-L"), Flag("--progress-bar"), Flag("-o"),
    [k |-> "file", name |-> "", v |-> file]>>
  \o HeaderArgs("User-Agent", UserAgent)
  \o HeaderArgs("Referer", referer)
  \o HeaderArgs("Accept", AcceptValue)
  \o HeaderArgs("Accept-Language", "en-US,en;q=0.9")
  \o HeaderArgs("Accept-Encoding", "gzip, deflate, br")
  \o HeaderArgs("Connection", "keep-alive")
  \o HeaderArgs("Upgrade-Insecure-Requests", "1")
  \o HeaderArgs("Sec-Fetch-Dest", "video")
  \o HeaderArgs("Sec-Fetch-Mode", "no-cors")
  \o HeaderArgs("Sec-Fetch-Site", "same-origin")
  \o HeaderArgs("Cache-Control", "no-cache")
  \o HeaderArgs("Pragma", "no-cache")
  \o CookieArgs(cookie_string)
  \o <<[k |-> "url", name |-> "", v |-> url]>>

\* ' ' in arg: a header argument is "Name: value" and always has a space
ArgHasSpace(arg) ==
  CASE arg.k = "header" -> TRUE
    [] arg.k = "flag"   -> FALSE
    [] OTHER            -> " " \in Range(arg.v)

\* line 200: ' '.join(f'"{arg}"' if ' ' in arg else arg for arg in download_cmd)
CommandLine(cmd) ==
  [i \in DOMAIN cmd |->
     [k |-> cmd[i].k, name |-> cmd[i].name, v |-> cmd[i].v,
      quoted |-> ArgHasSpace(cmd[i])]]

\* the headers of a command: the set of its <<name, value>> pairs
HeadersOf(cmd) ==
  {<<cmd[i].name, cmd[i].v>> : i \in {j \in DOMAIN cmd : cmd[j].k = "header"}}

\* the argument that follows -o
OutputFileOf(cmd) ==
  LET i == CHOOSE j \in DOMAIN cmd : cmd[j].k = "flag" /\ cmd[j].v = "-o"
  IN  cmd[i + 1].v

\* the last argument, the URL
TargetOf(cmd) == cmd[Len(cmd)].v

(***************************************************************************)
(* What curl -I -L -s prints: the header block of every response of the    *)
(* redirect chain, in order.  A response is [version, code, reason, ctype].*)
(***************************************************************************)
CRLF == <<"\r", "\n">>

DigitChar(d) ==
  CASE d = 0 -> "0" [] d = 1 -> "1" [] d = 2 -> "2" [] d = 3 -> "3"
    [] d = 4 -> "4" [] d = 5 -> "5" [] d = 6 -> "6" [] d = 7 -> "7"
    [] d = 8 -> "8" [] d = 9 -> "9"

CodeText(code) ==
  <<DigitChar(code \div 100), DigitChar((code \div 10) % 10), DigitChar(code % 10)>>

HeaderBlock(r) ==
  r.version \o <<" ">> \o CodeText(r.code)
  \o (IF r.reason = <<>> THEN <<>> ELSE <<" ">> \o r.reason) \o CRLF
  \o (IF r.ctype = <<>> THEN <<>> ELSE <<"C","o","n","t","e","n","t","-","T","y","p","e",":"," ">> \o r.ctype \o CRLF)
  \o CRLF

CurlOutput(chain) ==
  LET RECURSIVE out(_)
      out(i) == IF i > Len(chain) THEN <<>> ELSE HeaderBlock(chain[i]) \o out(i + 1)
  IN  out(1)

\* line 143: headers.split('\n')[0] if headers else ''
StatusLine(headers) == IF headers = <<>> THEN <<>> ELSE SplitOnce("\n", headers)[1]

\* line 146, negated: the status line is accepted
StatusOk(status_line) ==
  Contains(<<"2","0","0">>, status_line) \/ Contains(<<"2","0","6">>, status_line)

\* lines 137-148: the HEAD request validated the URL
HeadAccepts(result) ==
  result.returncode = 0 /\ StatusOk(StatusLine(result.stdout))

(***************************************************************************)
(* The page as BeautifulSoup sees it: a set of tags.  A tag is a record    *)
(* [tag, src, sources, string]: `sources` are the src attributes of a      *)
(* video tag's <source> children, `string` is a script's text as the list  *)
(* of the quoted literals in it.                                           *)
(***************************************************************************)
VideoTag(src, sources) ==
  [tag |-> "video", src |-> src, sources |-> sources, string |-> <<>>]

ScriptTag(literals) ==
  [tag |-> "script", src |-> <<>>, sources |-> {}, string |-> literals]

IframeTag(src) ==
  [tag |-> "iframe", src |-> src, sources |-> {}, string |-> <<>>]

\* urllib.parse.urljoin(base, url) for the two kinds of src the pages of the
\* model use: an absolute URL is kept, a path that starts with / replaces
\* the path of the base
UrlJoin(base, url) ==
  LET b == UrlSplit(base)
      u == UrlSplit(url)
  IN  IF url = <<>> THEN base
      ELSE IF u.scheme # <<>> THEN url
      ELSE b.scheme \o <<":","/","/">> \o b.netloc \o url

\* find_html5_videos
find_html5_videos(soup, base_url) ==
  UNION {
    (IF t.src # <<>> THEN {UrlJoin(base_url, t.src)} ELSE {})
    \cup {UrlJoin(base_url, s) : s \in {x \in t.sources : x # <<>>}}
    : t \in {x \in soup : x.tag = "video"} }

\* the extensions of video_patterns, lines 292-296
ScriptExtensions ==
  {<<".","m","p","4">>, <<".","w","e","b","m">>, <<".","o","g","g">>, <<".","a","v","i">>, <<".","m","o","v">>, <<".","w","m","v">>, <<".","f","l","v">>, <<".","m","4","v">>}

\* the first two patterns of video_patterns (re.IGNORECASE) on one quoted
\* literal: https?:// , then text, then an extension that ends the literal
\* or is followed by a query
ScriptLiteralMatches(lit) ==
  LET low == Lower(lit)
  IN  /\ StartsWith(<<"h","t","t","p",":","/","/">>, low) \/ StartsWith(<<"h","t","t","p","s",":","/","/">>, low)
      /\ \E ext \in ScriptExtensions :
           \E i \in 8..(Len(low) - Len(ext) + 1) :
             /\ SubSeq(low, i, i + Len(ext) - 1) = ext
             /\ i + Len(ext) = Len(low) + 1 \/ low[i + Len(ext)] = "?"

\* find_videos_in_scripts
find_videos_in_scripts(soup, base_url) ==
  UNION {
    {t.string[i] : i \in {j \in DOMAIN t.string : ScriptLiteralMatches(t.string[j])}}
    : t \in {x \in soup : x.tag = "script"} }

IdChars == Letters \cup Digits \cup {"_", "-"}

\* re.search(r'(?:embed/|youtu\.be/)([a-zA-Z0-9_-]+)', src).group(1), or <<>>
\* when the pattern does not match
YoutubeId(src) ==
  LET after(i) ==
        IF Slice(src, i, i + 5) = <<"e","m","b","e","d","/">> THEN i + 6
        ELSE IF Slice(src, i, i + 8) = <<"y","o","u","t","u",".","b","e","/">> THEN i + 9
        ELSE 0
      starts == {i \in 1..Len(src) :
                   after(i) # 0 /\ after(i) <= Len(src) /\ src[after(i)] \in IdChars}
  IN  IF starts = {} THEN <<>>
      ELSE LET i    == CHOOSE x \in starts : \A y \in starts : x <= y
               a    == after(i)
               ends == {e \in a..Len(src) : \A x \in a..e : src[x] \in IdChars}
               e    == CHOOSE x \in ends : \A y \in ends : x >= y
           IN  SubSeq(src, a, e)

\* find_embedded_videos
find_embedded_videos(soup, base_url) ==
  LET iframes == {x \in soup : x.tag = "iframe"}
      youtube == {t \in iframes :
                    /\ \/ Contains(<<"y","o","u","t","u","b","e",".","c","o","m","/","e","m","b","e","d","/">>, t.src)
                       \/ Contains(<<"y","o","u","t","u",".","b","e","/">>, t.src)
                    /\ YoutubeId(t.src) # <<>>}
      vimeo   == {t \in iframes : Contains(<<"v","i","m","e","o",".","c","o","m">>, t.src)}
  IN  {<<"h","t","t","p","s",":","/","/","w","w","w",".","y","o","u","t","u","b","e",".","c","o","m","/","w","a","t","c","h","?","v","=">> \o YoutubeId(t.src) : t \in youtube}
      \cup {t.src : t \in vimeo}

(***************************************************************************)
(* The performance log.  An entry is [id, method, url, mimeType, headers]: *)
(* `headers` is the set of the response's header values.                   *)
(***************************************************************************)
\* video_extensions, lines 331 and 356
video_extensions ==
  {<<".","m","p","4">>, <<".","w","e","b","m">>, <<".","o","g","g">>, <<".","a","v","i">>, <<".","m","o","v">>, <<".","w","m","v">>, <<".","f","l","v">>, <<".","m","4","v">>,
   <<".","m","k","v">>}

\* line 347
StreamingMarkers == {<<".","m","3","u","8">>, <<".","m","p","d">>, <<"/","s","e","g","m","e","n","t">>, <<"/","c","h","u","n","k">>}

HasVideoExtension(url) == \E ext \in video_extensions : Contains(ext, Lower(url))

\* lines 324-359: the entry adds its URL to the set
NetworkMatch(e) ==
  \/ /\ e.method = "Network.responseReceived"
     /\ \/ HasVideoExtension(e.url)
        \/ Contains(<<"v","i","d","e","o","/">>, Lower(e.mimeType))
        \/ \E v \in e.headers : Contains(<<"v","i","d","e","o","/">>, Lower(v))
        \/ \E m \in StreamingMarkers : Contains(m, Lower(e.url))
  \/ /\ e.method = "Network.requestWillBeSent"
     /\ HasVideoExtension(e.url)

\* find_videos_in_network on the entries get_log returned
VideosIn(logs) == {e.url : e \in {x \in logs : NetworkMatch(x)}}

(***************************************************************************)
(* The world the program runs in: the page, the performance log, the       *)
(* server that answers curl.                                               *)
(***************************************************************************)
\* sys.argv[1]
PageUrl == <<"h","t","t","p",":","/","/","v","/","p">>

\* where the page may navigate to while the program runs
NavUrl == <<"h","t","t","p",":","/","/","v","/","q">>

TagVideo == VideoTag(<<"/","a",".","m","p","4">>, {<<"h","t","t","p",":","/","/","v","/","a",".","m","p","4">>})

TagScript == ScriptTag(<<<<"h","t","t","p",":","/","/","v","/","b",".","m","p","4","?","t","=","1">>, <<"h","t","t","p",":","/","/","v","/","x",".","j","s">>>>)

TagVimeo == IframeTag(<<"h","t","t","p",":","/","/","v","i","m","e","o",".","c","o","m","/","1">>)

TagYoutube == IframeTag(<<"h","t","t","p",":","/","/","y","o","u","t","u","b","e",".","c","o","m","/","e","m","b","e","d","/","A","b","1","?","x">>)

\* the DOM a page can have when it has loaded
Pages == {{}, {TagVideo}, {TagScript, TagVimeo}, {TagYoutube}}

\* the tags a click can make the page insert
LazyTags == {VideoTag(<<"/","l",".","m","p","4">>, {}), IframeTag(<<"h","t","t","p",":","/","/","v","i","m","e","o",".","c","o","m","/","9">>)}

LazyUrls == {<<"h","t","t","p",":","/","/","v","/","l",".","m","p","4">>, <<"h","t","t","p",":","/","/","v","i","m","e","o",".","c","o","m","/","9">>}

\* the entries the browser can write to the performance log
LogEntries ==
  { [id |-> 1, method |-> "Network.responseReceived", url |-> <<"h","t","t","p",":","/","/","v","/","a",".","m","p","4">>,
     mimeType |-> <<"v","i","d","e","o","/","m","p","4">>, headers |-> {<<"v","i","d","e","o","/","m","p","4">>}],
    [id |-> 2, method |-> "Network.responseReceived", url |-> <<"h","t","t","p",":","/","/","v","/","s">>,
     mimeType |-> <<"V","i","d","e","o","/","M","P","4">>, headers |-> {}],
    [id |-> 3, method |-> "Network.requestWillBeSent", url |-> <<"h","t","t","p",":","/","/","v","/","s">>,
     mimeType |-> <<>>, headers |-> {}],
    [id |-> 4, method |-> "Network.responseReceived", url |-> <<"h","t","t","p",":","/","/","v","/","p">>,
     mimeType |-> <<"t","e","x","t","/","h","t","m","l">>, headers |-> {<<"t","e","x","t","/","h","t","m","l">>}] }

\* what driver.get_cookies() can return
CookieJars == {<<>>, <<[name |-> "sid", value |-> "1"], [name |-> "t", value |-> "2"]>>}

Response(version, code, reason, ctype) ==
  [version |-> version, code |-> code, reason |-> reason, ctype |-> ctype]

\* what one run of curl can end with: its return code and the responses of
\* the redirect chain it followed (6: could not resolve host)
CurlRun(rc, chain) == [returncode |-> rc, chain |-> chain]

Ok200 == Response(<<"H","T","T","P","/","1",".","1">>, 200, <<"O","K">>, <<"v","i","d","e","o","/","m","p","4">>)

Found302 == Response(<<"H","T","T","P","/","1",".","1">>, 302, <<"F","o","u","n","d">>, <<>>)

NotFound404 == Response(<<"H","T","T","P","/","1",".","1">>, 404, <<"N","o","t"," ","F","o","u","n","d">>, <<"t","e","x","t","/","h","t","m","l">>)

\* the runs of curl the whole program is checked with
FewCurlRuns ==
  { CurlRun(6, <<>>), CurlRun(0, <<Ok200>>), CurlRun(0, <<NotFound404>>),
    CurlRun(0, <<Found302, Ok200>>) }

Versions == {<<"H","T","T","P","/","1",".","1">>, <<"H","T","T","P","/","2">>}

FinalCodes == {200, 206, 302, 403, 404, 500}

Reasons == {<<>>, <<"O","K">>, <<"P","a","r","t","i","a","l"," ","C","o","n","t","e","n","t">>, <<"N","o","t"," ","F","o","u","n","d">>, <<"E","r","r","o","r"," ","2","0","0","6">>}

ContentTypes == {<<>>, <<"v","i","d","e","o","/","m","p","4">>, <<"t","e","x","t","/","h","t","m","l">>}

FinalResponses ==
  {Response(v, c, r, t) : v \in Versions, c \in FinalCodes, r \in Reasons,
                          t \in ContentTypes}

Redirects == {Found302, Response(<<"H","T","T","P","/","2">>, 301, <<>>, <<>>)}

\* the redirect chains of at most MaxHops responses: redirects, then a final
\* response
Chains ==
  LET RECURSIVE hops(_)
      hops(n) == IF n = 0 THEN {<<>>}
                 ELSE {<<r>> \o c : r \in Redirects, c \in hops(n - 1)}
  IN  {h \o <<f>> : h \in UNION {hops(n) : n \in 0..(MaxHops - 1)},
                    f \in FinalResponses}

\* the runs of curl get_download_command's reading of the output is checked
\* with
AllCurlRuns ==
  {CurlRun(0, <<>>), CurlRun(6, <<>>)}
  \cup {CurlRun(rc, c) : rc \in {0, 47}, c \in Chains}

\* the URLs get_download_command's file name is checked with: a scheme
\* urlparse splits parameters for and one it does not, then a host, then a
\* tail
TailChars == {"/", ".", "a", "?", "#", ";"}

Tails ==
  LET RECURSIVE upto(_)
      upto(n) == IF n = 0 THEN {<<>>}
                 ELSE upto(n - 1)
                      \cup {t \o <<c>> : t \in {x \in upto(n - 1) : Len(x) = n - 1},
                                         c \in TailChars}
  IN  upto(MaxTail)

NameUrls == {p \o t : p \in {<<"h","t","t","p",":","/","/","v">>, <<"w","s",":","/","/","v">>}, t \in Tails}

(***************************************************************************)
(* The state.                                                              *)
(***************************************************************************)
VARIABLES
  pc,              \* the statement main or find_main_video is about to run
  \* the browser
  dom,             \* the tags of the page now
  netlog,          \* the performance log entries get_log has not returned yet
  current_url,     \* driver.current_url
  \* find_main_video
  soup,            \* the parsed page_source of line 58
  video_urls,      \* the candidate set of line 60
  tested,          \* the candidates the loop of line 85 has been through
  curl_command,    \* what get_download_command returned last
  \* trigger_video_loading_and_monitor
  new_video_urls,  \* its video_urls, line 213
  sel,             \* the index of the selector of line 231
  elements,        \* the list of line 233
  el,              \* the index of the element of line 234
  i,               \* the polls of line 245 done for this element
  \* get_download_command
  video_url, filename, cookie_string, head_cmd, head_result,
  \* main
  result,          \* main's curl_command, line 407
  returned,        \* find_main_video has returned to main
  quits,           \* the calls of driver.quit()
  \* history: what happened, for the properties to speak of
  recorded,        \* the entries the browser has written to the log
  cleared,         \* the entries the read of line 239 returned
  clicked,         \* some element has been clicked
  poll_found,      \* a poll after the trigger's last native click found a URL
  find_calls,      \* the calls of find_elements, the raising ones included
  triggered,       \* trigger_video_loading_and_monitor has returned
  heads,           \* the bag of the URLs curl -I was run on
  validated,       \* the URLs whose curl -I run HeadAccepts
  head_chain,      \* the responses the server gave the last curl -I run
  raised,          \* the statements an Exception was raised in
  faults,          \* the exceptions and interrupts raised
  navs             \* the navigations of the page

browserVars == <<dom, netlog, current_url>>

fmvVars == <<soup, video_urls, tested, curl_command>>

trigVars == <<new_video_urls, sel, elements, el, i>>

gdcVars == <<video_url, filename, cookie_string, head_cmd, head_result>>

mainVars == <<result, returned, quits>>

logHist == <<recorded, cleared>>

trigHist == <<clicked, poll_found, find_calls, triggered>>

headHist == <<heads, validated, head_chain>>

faultHist == <<raised, faults>>

vars ==
  <<pc, browserVars, fmvVars, trigVars, gdcVars, mainVars, logHist, trigHist,
    headHist, faultHist, navs>>

NoResult == [returncode |-> 0, stdout |-> <<>>]

\* the state in which main calls find_main_video (line 407), but for pc and
\* the variables of get_download_command
Start ==
  /\ dom = {} /\ netlog = {} /\ current_url = PageUrl
  /\ soup = {} /\ video_urls = {} /\ tested = {} /\ curl_command = None
  /\ new_video_urls = {} /\ sel = 1 /\ elements = <<>> /\ el = 1 /\ i = 0
  /\ filename = <<>> /\ cookie_string = <<>> /\ head_cmd = <<>>
  /\ head_result = NoResult
  /\ result = None /\ returned = FALSE /\ quits = 0
  /\ recorded = {} /\ cleared = {} /\ clicked = FALSE /\ poll_found = FALSE
  /\ find_calls = 0 /\ triggered = FALSE
  /\ heads = EmptyBag /\ validated = {} /\ head_chain = <<>>
  /\ raised = {} /\ faults = 0 /\ navs = 0

Init == Start /\ pc = "load" /\ video_url = <<>>

(***************************************************************************)
(* The browser.                                                            *)
(***************************************************************************)
\* The statements that read the log next, and the trigger's return.  The
\* browser writes to the log at any time from the page's load on; what it
\* writes is seen at the next read, so an entry written between two reads is
\* written here just before the second, and one written after the last read
\* of the trigger just before the trigger returns.
LogRead ==
  {"scan_network", "trig_clear", "trig_poll", "trig_js_read", "trig_return"}

\* the browser writes an entry to the performance log
BrowserRecord ==
  /\ pc \in LogRead
  /\ Cardinality(recorded) < MaxLog
  /\ \E e \in LogEntries \ recorded :
       /\ netlog' = netlog \cup {e}
       /\ recorded' = recorded \cup {e}
  /\ UNCHANGED <<pc, dom, current_url, fmvVars, trigVars, gdcVars, mainVars,
                 cleared, trigHist, headHist, faultHist, navs>>

\* the page navigates (a script of the page, or the click before, sets
\* location).  Only get_download_command reads the current URL, so a
\* navigation before its call is made here at its first statement.
Navigate ==
  /\ pc \in {"gdc_name", "gdc_head", "gdc_run", "gdc_check"}
  /\ navs < MaxNav
  /\ current_url' = IF current_url = PageUrl THEN NavUrl ELSE PageUrl
  /\ navs' = navs + 1
  /\ UNCHANGED <<pc, dom, netlog, fmvVars, trigVars, gdcVars, mainVars,
                 logHist, trigHist, headHist, faultHist>>

\* driver.get_log('performance'): the entries since the last call, or an
\* exception, which leaves them in the log
GetLog ==
  {[logs |-> netlog, left |-> {}, failed |-> FALSE]}
  \cup (IF faults < MaxFaults
        THEN {[logs |-> {}, left |-> netlog, failed |-> TRUE]} ELSE {})

Faulted(o) ==
  /\ faults' = faults + (IF o.failed THEN 1 ELSE 0)
  /\ raised' = IF o.failed THEN raised \cup {pc} ELSE raised

(***************************************************************************)
(* find_main_video, lines 48-96.                                           *)
(***************************************************************************)
\* line 52: self.driver.get(url)
Load ==
  /\ pc = "load"
  /\ dom' \in Pages
  /\ pc' = "snapshot"
  /\ UNCHANGED <<netlog, current_url, fmvVars, trigVars, gdcVars, mainVars,
                 logHist, trigHist, headHist, faultHist, navs>>

\* line 58: soup = BeautifulSoup(self.driver.page_source, 'html.parser')
Snapshot ==
  /\ pc = "snapshot"
  /\ soup' = dom
  /\ pc' = "scan_html5"
  /\ UNCHANGED <<browserVars, video_urls, tested, curl_command, trigVars,
                 gdcVars, mainVars, logHist, trigHist, headHist, faultHist, navs>>

\* line 63
ScanHtml5 ==
  /\ pc = "scan_html5"
  /\ video_urls' = video_urls \cup find_html5_videos(soup, PageUrl)
  /\ pc' = "scan_scripts"
  /\ UNCHANGED <<browserVars, soup, tested, curl_command, trigVars, gdcVars,
                 mainVars, logHist, trigHist, headHist, faultHist, navs>>

\* line 66
ScanScripts ==
  /\ pc = "scan_scripts"
  /\ video_urls' = video_urls \cup find_videos_in_scripts(soup, PageUrl)
  /\ pc' = "scan_network"
  /\ UNCHANGED <<browserVars, soup, tested, curl_command, trigVars, gdcVars,
                 mainVars, logHist, trigHist, headHist, faultHist, navs>>

\* line 69: video_urls.update(self.find_videos_in_network())
ScanNetwork ==
  /\ pc = "scan_network"
  /\ \E o \in GetLog :
       /\ video_urls' = video_urls \cup VideosIn(o.logs)
       /\ netlog' = o.left
       /\ Faulted(o)
  /\ pc' = "trig_selector"
  /\ UNCHANGED <<dom, current_url, soup, tested, curl_command, trigVars,
                 gdcVars, mainVars, logHist, trigHist, headHist, navs>>

(***************************************************************************)
(* trigger_video_loading_and_monitor, lines 211-267.                       *)
(***************************************************************************)
\* range(5), line 245
PollCount == 5

\* what a click can do to the page: nothing, or insert the lazy tags
AfterClick(d) == {d, d \cup LazyTags}

\* lines 231-233: the next selector and find_elements, or the end of the loop
TrigSelector ==
  /\ pc = "trig_selector"
  /\ IF sel > NumSelectors
     THEN /\ pc' = "trig_return"
          /\ UNCHANGED <<elements, el, find_calls>>
     ELSE /\ \E n \in 0..MaxElements : elements' = [j \in 1..n |-> j]
          /\ el' = 1
          /\ find_calls' = find_calls + 1
          /\ pc' = "trig_element"
  /\ UNCHANGED <<browserVars, fmvVars, new_video_urls, sel, i, gdcVars,
                 mainVars, logHist, clicked, poll_found, triggered, headHist,
                 faultHist, navs>>

\* lines 234-235: the next element and is_displayed, or the next selector
TrigElement ==
  /\ pc = "trig_element"
  /\ IF el > Len(elements)
     THEN /\ sel' = sel + 1
          /\ pc' = "trig_selector"
          /\ el' = el
     ELSE \E is_displayed \in BOOLEAN :
            IF is_displayed
            THEN pc' = "trig_clear" /\ UNCHANGED <<sel, el>>
            ELSE pc' = "trig_element" /\ el' = el + 1 /\ sel' = sel
  /\ UNCHANGED <<browserVars, fmvVars, new_video_urls, elements, i, gdcVars,
                 mainVars, logHist, trigHist, headHist, faultHist, navs>>

\* line 239: self.driver.get_log('performance'), the result dropped
TrigClear ==
  /\ pc = "trig_clear"
  /\ cleared' = cleared \cup netlog
  /\ netlog' = {}
  /\ pc' = "trig_click"
  /\ UNCHANGED <<dom, current_url, fmvVars, trigVars, gdcVars, mainVars,
                 recorded, trigHist, headHist, faultHist, navs>>

\* line 242: element.click()
TrigClick ==
  /\ pc = "trig_click"
  /\ dom' \in AfterClick(dom)
  /\ clicked' = TRUE
  /\ poll_found' = FALSE
  /\ i' = 0
  /\ pc' = "trig_poll"
  /\ UNCHANGED <<netlog, current_url, fmvVars, new_video_urls, sel, elements,
                 el, gdcVars, mainVars, logHist, find_calls, triggered,
                 headHist, faultHist, navs>>

\* lines 245-250: one round of the loop, a second later
TrigPoll ==
  /\ pc = "trig_poll"
  /\ \E o \in GetLog :
       LET new_urls == VideosIn(o.logs)
       IN  /\ new_video_urls' = new_video_urls \cup new_urls
           /\ poll_found' = (poll_found \/ new_urls # {})
           /\ netlog' = o.left
           /\ Faulted(o)
  /\ i' = i + 1
  /\ pc' = IF i + 1 < PollCount THEN "trig_poll" ELSE "trig_js"
  /\ UNCHANGED <<dom, current_url, fmvVars, sel, elements, el, gdcVars,
                 mainVars, logHist, clicked, find_calls, triggered, headHist,
                 navs>>

\* line 254: self.driver.execute_script("arguments[0].click();", element)
TrigJsClick ==
  /\ pc = "trig_js"
  /\ dom' \in AfterClick(dom)
  /\ pc' = "trig_js_read"
  /\ UNCHANGED <<netlog, current_url, fmvVars, trigVars, gdcVars, mainVars,
                 logHist, trigHist, headHist, faultHist, navs>>

\* lines 255-257
TrigJsRead ==
  /\ pc = "trig_js_read"
  /\ \E o \in GetLog :
       /\ new_video_urls' = new_video_urls \cup VideosIn(o.logs)
       /\ netlog' = o.left
       /\ Faulted(o)
  /\ pc' = "trig_check"
  /\ UNCHANGED <<dom, current_url, fmvVars, sel, elements, el, i, gdcVars,
                 mainVars, logHist, trigHist, headHist, navs>>

\* lines 261-262: break out of the loop over the elements, or go on with it
TrigCheck ==
  /\ pc = "trig_check"
  /\ IF new_video_urls # {}
     THEN sel' = sel + 1 /\ pc' = "trig_selector" /\ el' = el
     ELSE el' = el + 1 /\ pc' = "trig_element" /\ sel' = sel
  /\ UNCHANGED <<browserVars, fmvVars, new_video_urls, elements, i, gdcVars,
                 mainVars, logHist, trigHist, headHist, faultHist, navs>>

\* a variant of the handler that leaves the loop over the selectors (break)
TrigExceptStop ==
  /\ pc = "trig_except"
  /\ sel' = NumSelectors + 1
  /\ pc' = "trig_selector"
  /\ UNCHANGED <<browserVars, fmvVars, new_video_urls, elements, el, i,
                 gdcVars, mainVars, logHist, trigHist, headHist, faultHist, navs>>

\* lines 263-265: except Exception: continue
TrigExcept ==
  /\ pc = "trig_except"
  /\ sel' = sel + 1
  /\ pc' = "trig_selector"
  /\ UNCHANGED <<browserVars, fmvVars, new_video_urls, elements, el, i,
                 gdcVars, mainVars, logHist, trigHist, headHist, faultHist, navs>>

\* lines 267 and 72-73: return video_urls; video_urls.update(new_video_urls).
\* The function's other locals end with it.
TrigReturn ==
  /\ pc = "trig_return"
  /\ video_urls' = video_urls \cup new_video_urls
  /\ sel' = 1 /\ elements' = <<>> /\ el' = 1 /\ i' = 0
  /\ poll_found' = FALSE
  /\ triggered' = TRUE
  /\ pc' = "scan_embedded"
  /\ UNCHANGED <<browserVars, soup, tested, curl_command, new_video_urls,
                 gdcVars, mainVars, logHist, clicked, find_calls, headHist,
                 faultHist, navs>>

(***************************************************************************)
(* find_main_video, the rest.                                              *)
(***************************************************************************)
\* a variant of line 76 that scans the page as it is now, not the snapshot
ScanEmbeddedFresh ==
  /\ pc = "scan_embedded"
  /\ video_urls' = video_urls \cup find_embedded_videos(dom, PageUrl)
  /\ pc' = "check_empty"
  /\ UNCHANGED <<browserVars, soup, tested, curl_command, trigVars, gdcVars,
                 mainVars, logHist, trigHist, headHist, faultHist, navs>>

\* line 76
ScanEmbedded ==
  /\ pc = "scan_embedded"
  /\ video_urls' = video_urls \cup find_embedded_videos(soup, PageUrl)
  /\ pc' = "check_empty"
  /\ UNCHANGED <<browserVars, soup, tested, curl_command, trigVars, gdcVars,
                 mainVars, logHist, trigHist, headHist, faultHist, navs>>

\* lines 78-82
CheckEmpty ==
  /\ pc = "check_empty"
  /\ IF video_urls = {}
     THEN result' = None /\ returned' = TRUE /\ pc' = "main_print"
     ELSE pc' = "loop" /\ UNCHANGED <<result, returned>>
  /\ UNCHANGED <<browserVars, fmvVars, trigVars, gdcVars, quits, logHist,
                 trigHist, headHist, faultHist, navs>>

\* lines 85-86 and 91-92: the next candidate of the set, in whatever order
\* the set gives them, or the end of the loop
Loop ==
  /\ pc = "loop"
  /\ IF tested = video_urls
     THEN /\ result' = None /\ returned' = TRUE /\ pc' = "main_print"
          /\ UNCHANGED <<tested, video_url>>
     ELSE /\ \E u \in video_urls \ tested :
               video_url' = u /\ tested' = tested \cup {u}
          /\ pc' = "gdc_name"
          /\ UNCHANGED <<result, returned>>
  /\ UNCHANGED <<browserVars, soup, video_urls, curl_command, trigVars,
                 filename, cookie_string, head_cmd, head_result, quits,
                 logHist, trigHist, headHist, faultHist, navs>>

\* a variant of lines 88-89 that returns only after the last candidate
LoopTestNoStop ==
  /\ pc = "loop_test"
  /\ IF curl_command # None /\ tested = video_urls
     THEN result' = curl_command /\ returned' = TRUE /\ pc' = "main_print"
     ELSE pc' = "loop" /\ UNCHANGED <<result, returned>>
  /\ UNCHANGED <<browserVars, fmvVars, trigVars, gdcVars, quits, logHist,
                 trigHist, headHist, faultHist, navs>>

\* lines 88-89: if curl_command: return curl_command
LoopTest ==
  /\ pc = "loop_test"
  /\ IF curl_command # None
     THEN result' = curl_command /\ returned' = TRUE /\ pc' = "main_print"
     ELSE pc' = "loop" /\ UNCHANGED <<result, returned>>
  /\ UNCHANGED <<browserVars, fmvVars, trigVars, gdcVars, quits, logHist,
                 trigHist, headHist, faultHist, navs>>

\* lines 94-96: except Exception: return None
FmvExcept ==
  /\ pc = "fmv_except"
  /\ result' = None /\ returned' = TRUE
  /\ pc' = "main_print"
  /\ UNCHANGED <<browserVars, fmvVars, trigVars, gdcVars, quits, logHist,
                 trigHist, headHist, faultHist, navs>>

(***************************************************************************)
(* get_download_command, lines 98-208.                                     *)
(***************************************************************************)
\* lines 102-105
GdcName ==
  /\ pc = "gdc_name"
  /\ filename' = Filename(video_url)
  /\ pc' = "gdc_head"
  /\ UNCHANGED <<browserVars, fmvVars, trigVars, video_url, cookie_string,
                 head_cmd, head_result, mainVars, logHist, trigHist, headHist,
                 faultHist, navs>>

\* lines 110-132: the cookies and the current URL are read from the browser
GdcHead ==
  /\ pc = "gdc_head"
  /\ \E cookies \in CookieJars :
       /\ cookie_string' = CookieString(cookies)
       /\ head_cmd' = HeadCmd(current_url, CookieString(cookies), video_url)
  /\ pc' = "gdc_run"
  /\ UNCHANGED <<browserVars, fmvVars, trigVars, video_url, filename,
                 head_result, mainVars, logHist, trigHist, headHist,
                 faultHist, navs>>

\* line 135: subprocess.run(head_cmd, capture_output=True, text=True)
GdcRun(runs) ==
  /\ pc = "gdc_run"
  /\ \E r \in runs :
       LET res == [returncode |-> r.returncode, stdout |-> CurlOutput(r.chain)]
       IN  /\ head_result' = res
           /\ head_chain' = r.chain
           /\ validated' = IF HeadAccepts(res) THEN validated \cup {video_url}
                           ELSE validated
  /\ heads' = heads (+) SetToBag({TargetOf(head_cmd)})
  /\ pc' = "gdc_check"
  /\ UNCHANGED <<browserVars, fmvVars, trigVars, video_url, filename,
                 cookie_string, head_cmd, mainVars, logHist, trigHist,
                 faultHist, navs>>

\* a variant of lines 137-200 without the returns of lines 139 and 148
GdcCheckNoValidate ==
  /\ pc = "gdc_check"
  /\ curl_command' =
       CommandLine(DownloadCmd(filename, current_url, cookie_string, video_url))
  /\ pc' = "loop_test"
  /\ UNCHANGED <<browserVars, soup, video_urls, tested, trigVars, gdcVars,
                 mainVars, logHist, trigHist, headHist, faultHist, navs>>

\* lines 137-200: the return code and the status line decide; the loop over
\* the header lines (151-170) only prints.  The download command reads the
\* current URL again.
GdcCheck ==
  /\ pc = "gdc_check"
  /\ curl_command' =
       IF HeadAccepts(head_result)
       THEN CommandLine(DownloadCmd(filename, current_url, cookie_string,
                                    video_url))
       ELSE None
  /\ pc' = "loop_test"
  /\ UNCHANGED <<browserVars, soup, video_urls, tested, trigVars, gdcVars,
                 mainVars, logHist, trigHist, headHist, faultHist, navs>>

\* lines 202-208: except ...: return None
GdcExcept ==
  /\ pc = "gdc_except"
  /\ curl_command' = None
  /\ pc' = "loop_test"
  /\ UNCHANGED <<browserVars, soup, video_urls, tested, trigVars, gdcVars,
                 mainVars, logHist, trigHist, headHist, faultHist, navs>>

(***************************************************************************)
(* main, lines 406-420, and close, lines 392-395.                          *)
(***************************************************************************)
\* lines 409-413
MainPrint ==
  /\ pc = "main_print"
  /\ pc' = "main_finally"
  /\ UNCHANGED <<browserVars, fmvVars, trigVars, gdcVars, mainVars, logHist,
                 trigHist, headHist, faultHist, navs>>

\* lines 415-418: the two handlers print
MainExcept ==
  /\ pc \in {"main_kbd", "main_exc"}
  /\ pc' = "main_finally"
  /\ UNCHANGED <<browserVars, fmvVars, trigVars, gdcVars, mainVars, logHist,
                 trigHist, headHist, faultHist, navs>>

\* lines 419-420 and 392-395: extractor.close() calls self.driver.quit()
MainFinally ==
  /\ pc = "main_finally"
  /\ quits' = quits + 1
  /\ pc' = "exited"
  /\ UNCHANGED <<browserVars, fmvVars, trigVars, gdcVars, result, returned,
                 logHist, trigHist, headHist, faultHist, navs>>

(***************************************************************************)
(* Exceptions.  A call on the driver or on subprocess can raise; where the *)
(* exception lands is the innermost try around the statement.              *)
(***************************************************************************)
\* the statements that call the driver, subprocess or print, and can raise
CanRaise ==
  \/ pc \in {"load", "snapshot", "trig_clear", "trig_click", "trig_js",
             "gdc_head", "gdc_run", "main_print"}
  \/ pc = "trig_selector" /\ sel <= NumSelectors
  \/ pc = "trig_element" /\ el <= Len(elements)
  \/ pc = "gdc_check" /\ HeadAccepts(head_result)

\* the handler of an Exception raised at statement p
HandlerOf(p) ==
  CASE p \in {"load", "snapshot"} -> "fmv_except"                 \* line 94
    [] p \in {"trig_selector", "trig_element", "trig_clear", "trig_click"}
         -> "trig_except"                                         \* line 263
    [] p = "trig_js" -> "trig_check"                              \* line 258
    [] p \in {"gdc_head", "gdc_run", "gdc_check"} -> "gdc_except" \* line 206
    [] p = "main_print" -> "main_exc"                             \* line 417

\* the statements of find_main_video and of main's try block
InTry ==
  {"load", "snapshot", "scan_html5", "scan_scripts", "scan_network",
   "trig_selector", "trig_element", "trig_clear", "trig_click", "trig_poll",
   "trig_js", "trig_js_read", "trig_check", "trig_except", "trig_return",
   "scan_embedded", "check_empty", "loop", "loop_test", "gdc_name", "gdc_head",
   "gdc_run", "gdc_check", "gdc_except", "fmv_except", "main_print"}

\* the handler of a KeyboardInterrupt raised at statement p: the bare except
\* of line 258 around the JavaScript click, else main's, line 415
InterruptHandlerOf(p) ==
  IF p \in {"trig_js", "trig_js_read"} THEN "trig_check" ELSE "main_kbd"

\* the statement at pc raises an Exception
Raise ==
  /\ faults < MaxFaults
  /\ CanRaise
  /\ pc' = HandlerOf(pc)
  /\ raised' = raised \cup {pc}
  /\ faults' = faults + 1
  /\ find_calls' = find_calls + (IF pc = "trig_selector" THEN 1 ELSE 0)
  /\ UNCHANGED <<browserVars, fmvVars, trigVars, gdcVars, mainVars, logHist,
                 clicked, poll_found, triggered, headHist, navs>>

\* the user presses Ctrl-C
Interrupt ==
  /\ faults < MaxFaults
  /\ pc \in InTry
  /\ pc' = InterruptHandlerOf(pc)
  /\ faults' = faults + 1
  /\ UNCHANGED <<browserVars, fmvVars, trigVars, gdcVars, mainVars, logHist,
                 trigHist, headHist, raised, navs>>

(***************************************************************************)
(* The specifications.                                                     *)
(***************************************************************************)
Next ==
  \/ BrowserRecord \/ Navigate
  \/ Load \/ Snapshot \/ ScanHtml5 \/ ScanScripts \/ ScanNetwork
  \/ TrigSelector \/ TrigElement \/ TrigClear \/ TrigClick \/ TrigPoll
  \/ TrigJsClick \/ TrigJsRead \/ TrigCheck \/ TrigExcept \/ TrigReturn
  \/ ScanEmbedded \/ CheckEmpty \/ Loop \/ LoopTest \/ FmvExcept
  \/ GdcName \/ GdcHead \/ GdcRun(FewCurlRuns) \/ GdcCheck \/ GdcExcept
  \/ MainPrint \/ MainExcept \/ MainFinally
  \/ Raise \/ Interrupt

\* main from the call of find_main_video to the exit
Spec == Init /\ [][Next]_vars

\* main on a page whose traffic the performance log does not record: the
\* candidates are those of the page source, every log read returns no entry
\* or raises
NextQuiet ==
  \/ Navigate
  \/ Load \/ Snapshot \/ ScanHtml5 \/ ScanScripts \/ ScanNetwork
  \/ TrigSelector \/ TrigElement \/ TrigClear \/ TrigClick \/ TrigPoll
  \/ TrigJsClick \/ TrigJsRead \/ TrigCheck \/ TrigExcept \/ TrigReturn
  \/ ScanEmbedded \/ CheckEmpty \/ Loop \/ LoopTest \/ FmvExcept
  \/ GdcName \/ GdcHead \/ GdcRun(FewCurlRuns) \/ GdcCheck \/ GdcExcept
  \/ MainPrint \/ MainExcept \/ MainFinally
  \/ Raise \/ Interrupt

SpecQuiet == Init /\ [][NextQuiet]_vars

\* find_main_video up to the candidate set: the scans and the trigger
NextExtract ==
  \/ BrowserRecord
  \/ Load \/ Snapshot \/ ScanHtml5 \/ ScanScripts \/ ScanNetwork
  \/ TrigSelector \/ TrigElement \/ TrigClear \/ TrigClick \/ TrigPoll
  \/ TrigJsClick \/ TrigJsRead \/ TrigCheck \/ TrigExcept \/ TrigReturn
  \/ ScanEmbedded \/ Raise

SpecExtract == Init /\ [][NextExtract]_vars

\* The state in which find_main_video reaches line 78 when the page has
\* loaded as `page`, the browser wrote `entries` to the log before the scan
\* of line 69, and the trigger found no element to click.
AtCheckEmpty(page, entries) ==
  /\ pc = "check_empty"
  /\ dom = page /\ netlog = {} /\ current_url = PageUrl
  /\ soup = page
  /\ video_urls = find_html5_videos(page, PageUrl)
                  \cup find_videos_in_scripts(page, PageUrl)
                  \cup VideosIn(entries)
                  \cup find_embedded_videos(page, PageUrl)
  /\ tested = {} /\ curl_command = None
  /\ new_video_urls = {} /\ sel = 1 /\ elements = <<>> /\ el = 1 /\ i = 0
  /\ video_url = <<>> /\ filename = <<>> /\ cookie_string = <<>>
  /\ head_cmd = <<>> /\ head_result = NoResult
  /\ result = None /\ returned = FALSE /\ quits = 0
  /\ recorded = entries /\ cleared = {} /\ clicked = FALSE
  /\ poll_found = FALSE /\ find_calls = NumSelectors /\ triggered = TRUE
  /\ heads = EmptyBag /\ validated = {} /\ head_chain = <<>>
  /\ raised = {} /\ faults = 0 /\ navs = 0

InitValidate ==
  \E page \in Pages :
    \E entries \in {S \in SUBSET LogEntries : Cardinality(S) <= MaxLog} :
      AtCheckEmpty(page, entries)

NextValidate ==
  \/ CheckEmpty \/ Loop \/ LoopTest
  \/ GdcName \/ GdcHead \/ GdcRun(FewCurlRuns) \/ GdcCheck \/ GdcExcept
  \/ Navigate \/ Raise

\* find_main_video from line 78 on: the loop over the candidates
SpecValidate == InitValidate /\ [][NextValidate]_vars

\* The state in which the loop of line 85 calls get_download_command on `u`,
\* its only candidate, which the scan of line 69 found in the log.
AtCall(u) ==
  /\ dom = {} /\ netlog = {} /\ current_url = PageUrl
  /\ soup = {} /\ video_urls = {u} /\ tested = {u} /\ curl_command = None
  /\ new_video_urls = {} /\ sel = 1 /\ elements = <<>> /\ el = 1 /\ i = 0
  /\ video_url = u
  /\ result = None /\ returned = FALSE /\ quits = 0
  /\ recorded = {[id |-> 1, method |-> "Network.responseReceived", url |-> u,
                  mimeType |-> <<"v","i","d","e","o","/","m","p","4">>, headers |-> {}]}
  /\ cleared = {} /\ clicked = FALSE /\ poll_found = FALSE
  /\ find_calls = NumSelectors /\ triggered = TRUE
  /\ heads = EmptyBag /\ validated = {} /\ head_chain = <<>>
  /\ raised = {} /\ faults = 0 /\ navs = 0

InitName ==
  /\ pc = "gdc_name"
  /\ \E u \in NameUrls : AtCall(u)
  /\ filename = <<>> /\ cookie_string = <<>> /\ head_cmd = <<>>
  /\ head_result = NoResult

NextName == GdcName \/ GdcHead \/ GdcRun(FewCurlRuns) \/ GdcCheck \/ Navigate

\* get_download_command on the URLs of NameUrls
SpecName == InitName /\ [][NextName]_vars

InitHead ==
  /\ pc = "gdc_run"
  /\ AtCall(<<"h","t","t","p",":","/","/","v","/","a",".","m","p","4">>)
  /\ filename = Filename(video_url)
  /\ \E cookies \in CookieJars :
       /\ cookie_string = CookieString(cookies)
       /\ head_cmd = HeadCmd(PageUrl, CookieString(cookies), video_url)
  /\ head_result = NoResult

NextHead == GdcRun(AllCurlRuns) \/ GdcCheck

\* get_download_command from line 135 on, on the runs of AllCurlRuns
SpecHead == InitHead /\ [][NextHead]_vars

(***************************************************************************)
(* The properties.                                                         *)
(***************************************************************************)
\* the status of the response curl ended on, 0 when there was none
FinalStatus == IF head_chain = <<>> THEN 0 ELSE head_chain[Len(head_chain)].code

\* C1: get_download_command returns a command if and only if curl exited
\* with return code 0 and the status of the response for the video URL, the
\* last of the redirect chain, is 200 or 206.
C1_CommandIffStatus200or206 ==
  pc = "loop_test" =>
    (curl_command # None
       <=> (head_result.returncode = 0 /\ FinalStatus \in {200, 206}))

\* C2: find_main_video returns a command only for a URL of the candidate set
\* that passed the HEAD validation; it returns None when the candidate set is
\* empty, without any HEAD request, and when no candidate passed.
C2_ReturnsOnlyValidatedCandidate ==
  returned =>
    /\ result # None =>
         /\ TargetOf(result) \in video_urls
         /\ TargetOf(result) \in validated
         /\ BagIn(TargetOf(result), heads)
    /\ video_urls = {} => (result = None /\ heads = EmptyBag)
    /\ validated = {} => result = None

\* C2's case: a command is returned after an earlier candidate failed
C2_Witness ==
  /\ returned /\ result # None
  /\ BagCardinality(heads) >= 2
  /\ Cardinality(validated) = 1

C4_SameHeaders ==
  (pc = "loop_test" /\ curl_command # None) =>
    HeadersOf(head_cmd) \subseteq HeadersOf(curl_command)

\* the path of a URL scheme://authority/path?query#fragment
PathOfUrl(u) ==
  LET marks == {k \in 1..Len(u) : Slice(u, k, k + 2) = <<":","/","/">>}
      p     == CHOOSE k \in marks : \A j \in marks : k <= j
      rest  == From(u, p + 3)
      stops == {k \in 1..Len(rest) : rest[k] \in {"/", "?", "#"}}
      a     == IF stops = {} THEN Len(rest) + 1
               ELSE CHOOSE k \in stops : \A j \in stops : k <= j
      tail  == From(rest, a)
      ends  == {k \in 1..Len(tail) : tail[k] \in {"?", "#"}}
      e     == IF ends = {} THEN Len(tail) + 1
               ELSE CHOOSE k \in ends : \A j \in ends : k <= j
  IN  SubSeq(tail, 1, e - 1)

SchemeOfUrl(u) ==
  LET marks == {k \in 1..Len(u) : Slice(u, k, k + 2) = <<":","/","/">>}
  IN  SubSeq(u, 1, (CHOOSE k \in marks : \A j \in marks : k <= j) - 1)

\* the text after the last / of a path
LastSegment(path) ==
  LET slashes == {k \in 1..Len(path) : path[k] = "/"}
  IN  IF slashes = {} THEN path
      ELSE From(path, (CHOOSE k \in slashes : \A j \in slashes : k >= j) + 1)

\* the text before the first ; of a segment
BeforeSemicolon(seg) ==
  LET semis == {k \in 1..Len(seg) : seg[k] = ";"}
  IN  IF semis = {} THEN seg
      ELSE SubSeq(seg, 1, (CHOOSE k \in semis : \A j \in semis : k <= j) - 1)

NameFor(seg) == IF seg # <<>> /\ "." \in Range(seg) THEN seg ELSE DefaultFilename

\* C5 as stated: the file after -o is the last segment of the URL's path
\* where that segment is not empty and has a '.', else video.mp4.
C5_LastPathSegment ==
  (pc = "loop_test" /\ curl_command # None) =>
    OutputFileOf(curl_command) = NameFor(LastSegment(PathOfUrl(video_url)))

\* C5, amended: for a scheme urlparse splits parameters for, the last segment
\* is cut at its first ';' before it is looked at; the file is never empty.
C5_LastPathSegmentLessParams ==
  (pc = "loop_test" /\ curl_command # None) =>
    LET seg == LastSegment(PathOfUrl(video_url))
        cut == IF SchemeOfUrl(video_url) \in {<<"h","t","t","p">>, <<"h","t","t","p","s">>}
               THEN BeforeSemicolon(seg) ELSE seg
    IN  /\ OutputFileOf(curl_command) = NameFor(cut)
        /\ OutputFileOf(curl_command) # <<>>

\* C5's case: a command for a URL whose last segment has parameters, named
\* after the segment less its parameters
C5_Witness ==
  /\ pc = "loop_test" /\ curl_command # None
  /\ ";" \in Range(LastSegment(PathOfUrl(video_url)))
  /\ SchemeOfUrl(video_url) = <<"h","t","t","p">>
  /\ OutputFileOf(curl_command) # DefaultFilename

Scans == {"scan_html5", "scan_scripts", "scan_network", "scan_embedded"}

\* C6 as stated: every scan of a source comes after the trigger, on the DOM
\* as the clicks left it.
C6_ScansAfterTrigger ==
  pc \in Scans => (triggered /\ soup = dom)

\* C6, amended: the tags, the scripts and the log are scanned before the
\* trigger and before any click, the iframes after the trigger, all on the
\* page source of line 58, taken before any click: what a click inserts is
\* in no scan.
C6_ScansAroundTrigger ==
  /\ pc \in {"snapshot", "scan_html5", "scan_scripts", "scan_network"} =>
       (~clicked /\ ~triggered)
  /\ pc = "scan_embedded" => triggered
  /\ soup \cap LazyTags = {}
  /\ video_urls \cap LazyUrls = {}

\* C6's case: the iframes have been scanned after a click changed the page
C6_Witness ==
  /\ pc = "check_empty" /\ clicked
  /\ LazyTags \subseteq dom
  /\ soup # {} /\ soup # dom

\* C7: once a click has produced video URLs, no further element of any
\* selector is clicked.
C7_NoClickAfterSuccess ==
  pc = "trig_click" => new_video_urls = {}

\* C8: the JavaScript click is run on an element only if the five polls
\* after its native click found no video URL.
C8_JsClickOnlyAfterFailure ==
  pc = "trig_js_read" => ~poll_found

\* C9 as stated: every entry the browser wrote to the log up to the end of
\* the trigger that matches find_videos_in_network's criteria is in the
\* candidate set.
C9_NoTrafficLost ==
  pc = "scan_embedded" =>
    \A e \in recorded : NetworkMatch(e) => e.url \in video_urls

\* C10 as stated: an Exception raised in any stage of find_main_video makes
\* it return None; a failing selector does not stop the others; driver.quit()
\* is called exactly once on every exit of main.
C10_AnyExceptionGivesNone ==
  /\ (returned /\ raised \ {"main_print"} # {}) => result = None
  /\ pc = "trig_return" => find_calls = NumSelectors
  /\ quits = (IF pc = "exited" THEN 1 ELSE 0)

\* C10, amended: no Exception leaves find_main_video; one raised by the page
\* load or the page source makes it return None (one raised in a log read,
\* in the trigger or in get_download_command is caught there); a failing
\* selector does not stop the others; driver.quit() is called exactly once on
\* every exit of main.
C10_ContainedAndReleased ==
  /\ (returned /\ raised \cap {"load", "snapshot"} # {}) => result = None
  /\ pc = "main_exc" => (returned /\ "main_print" \in raised)
  /\ pc = "trig_return" => find_calls = NumSelectors
  /\ quits = (IF pc = "exited" THEN 1 ELSE 0)

\* C10's case: main has exited after an Exception in the trigger or in the
\* validation, with a command, and the browser was released
C10_Witness ==
  /\ pc = "exited" /\ quits = 1
  /\ raised # {} /\ result # None

=============================================================================
